---- MODULE Spec2Model ----
(***************************************************************************)
(* The message layer of soil_moisture_common (src/messages.h,              *)
(* src/messages.cc): six wire structures, and for each a build_, a parse_  *)
(* and a _to_string function, plus get_message_type and                    *)
(* get_message_type_string.                                                *)
(*                                                                         *)
(* A message is modelled as the bytes of the buffer that holds it.  The    *)
(* structures are laid out as the compiler lays them out on the 32-bit     *)
(* little-endian ARM boards the code is written for (the code prints       *)
(* uint32_t with %lu): every scalar is aligned to its size, the enum is an *)
(* int.  Quantities of 8 and 16 bits are integers; TLC's integers have 32  *)
(* bits, so a uint32_t or uint64_t is carried as the sequence of its       *)
(* bytes, least significant first (its image in memory).                   *)
(***************************************************************************)
EXTENDS Integers, Sequences, FiniteSets, TLC

VARIABLES
    msg,        \* the message buffer: the bytes of the structure, in order
    built,      \* what the last build_ call was given (kind, arguments)
    op,         \* the last call: its name, kind and arguments
    res,        \* what the last call returned and wrote
    strs,       \* the static decoded_string of each _to_string function
    returned,   \* per kind, the string its _to_string returned last
    calls       \* the number of calls made so far

vars == <<msg, built, op, res, strs, returned, calls>>

----------------------------------------------------------------------------
(* Constants of the program. *)

RH_RF95_MAX_MESSAGE_LEN == 251

\* enum MessageType
join_request == 1
join_response == 2
time_request == 3
time_response == 4
data_message == 10
text == 11
data_packet == 12

\* sizeof(MessageType): an enum without a fixed underlying type is an int
SizeofMessageType == 4

TEXT_BUF_LEN == RH_RF95_MAX_MESSAGE_LEN - SizeofMessageType - 1 - 1

\* The kinds that have a build_, a parse_ and a _to_string function.
Kinds == {join_request, join_response, time_request, time_response, data_message, text}

\* The closed set of the enumeration.
MessageType == Kinds \cup {data_packet}

----------------------------------------------------------------------------
(* Bytes and the fixed-width integer types. *)

Min(a, b) == IF a < b THEN a ELSE b

\* uint16_t <-> its two bytes in memory
U16Bytes(v) == <<v % 256, v \div 256>>
U16Value(b) == b[1] + 256 * b[2]

\* int16_t <-> its two bytes in memory (two's complement)
I16Bytes(v) == U16Bytes((v + 65536) % 65536)
I16Value(b) == IF U16Value(b) >= 32768 THEN U16Value(b) - 65536 ELSE U16Value(b)

\* uint8_t -> uint32_t (integer promotion of a store into a wider field)
U32FromU8(v) == <<v, 0, 0, 0>>
\* uint32_t -> uint8_t (the narrowing of an assignment): the low byte
U8FromU32(b) == b[1]

\* an enumerator as the enum's bytes in memory
EnumBytes(v) == <<v % 256, (v \div 256) % 256, (v \div 65536) % 256, v \div 16777216>>

----------------------------------------------------------------------------
(* The structures of messages.h.  A field is its name, its size and its    *)
(* alignment; a structure is the sequence of its fields, and the offsets   *)
(* are those the compiler gives them.                                      *)

Field(n, s, a) == [name |-> n, size |-> s, align |-> a]

join_request_t ==
    << Field("type", SizeofMessageType, SizeofMessageType),
       Field("dev_eui", 8, 8) >>

join_response_t ==
    << Field("type", SizeofMessageType, SizeofMessageType),
       Field("node", 1, 1),
       Field("leaf_node", 1, 1),
       Field("time", 4, 4) >>

time_request_t ==
    << Field("type", SizeofMessageType, SizeofMessageType),
       Field("node", 1, 1) >>

time_response_t ==
    << Field("type", SizeofMessageType, SizeofMessageType),
       Field("node", 1, 1),
       Field("time", 4, 4) >>

text_t ==
    << Field("type", SizeofMessageType, SizeofMessageType),
       Field("node", 4, 4),
       Field("length", 1, 1),
       Field("buf", TEXT_BUF_LEN, 1) >>

data_message_t ==
    << Field("type", SizeofMessageType, SizeofMessageType),
       Field("node", 1, 1),
       Field("message", 4, 4),
       Field("time", 4, 4),
       Field("battery", 2, 2),
       Field("last_tx_duration", 2, 2),
       Field("temp", 2, 2),
       Field("humidity", 2, 2),
       Field("status", 1, 1) >>

\* the structure of each kind of message
StructOf(kind) ==
    CASE kind = join_request -> join_request_t
      [] kind = join_response -> join_response_t
      [] kind = time_request -> time_request_t
      [] kind = time_response -> time_response_t
      [] kind = text -> text_t
      [] kind = data_message -> data_message_t

AlignUp(o, a) == ((o + a - 1) \div a) * a

\* the offset of field i of a structure: the end of field i-1, aligned
RECURSIVE OffsetAt(_, _)
OffsetAt(fields, i) ==
    IF i = 1 THEN 0
    ELSE AlignUp(OffsetAt(fields, i - 1) + fields[i - 1].size, fields[i].align)

FieldIndex(fields, name) == CHOOSE i \in 1..Len(fields) : fields[i].name = name

Offset(fields, name) == OffsetAt(fields, FieldIndex(fields, name))

FieldSize(fields, name) == fields[FieldIndex(fields, name)].size

RECURSIVE MaxAlign(_, _)
MaxAlign(fields, i) ==
    IF i = 0 THEN 1
    ELSE IF fields[i].align > MaxAlign(fields, i - 1) THEN fields[i].align
         ELSE MaxAlign(fields, i - 1)

\* sizeof: the end of the last field, rounded up to the structure's alignment
SizeOf(fields) ==
    AlignUp(OffsetAt(fields, Len(fields)) + fields[Len(fields)].size,
            MaxAlign(fields, Len(fields)))

\* The buffer holds the largest structure.
MsgSize == SizeOf(text_t)

----------------------------------------------------------------------------
(* Memory. *)

\* A buffer is the sequence of its bytes: the byte at offset off is m[off + 1].
ByteAt(m, off) == m[off + 1]

\* memcpy(m + off, bytes, n)
MemWrite(m, off, bytes, n) ==
    [i \in DOMAIN m |-> IF i > off /\ i <= off + n THEN bytes[i - off] ELSE m[i]]

\* the n bytes of m from off
MemRead(m, off, n) == [i \in 1..n |-> ByteAt(m, off + i - 1)]

\* s->name = bytes
Store(m, fields, name, bytes) ==
    MemWrite(m, Offset(fields, name), bytes, FieldSize(fields, name))

\* s->name
Load(m, fields, name) == MemRead(m, Offset(fields, name), FieldSize(fields, name))

----------------------------------------------------------------------------
(* build_ and parse_ (messages.cc).  A build_ takes the buffer and the     *)
(* fields and gives the buffer it leaves.  A parse_ takes the buffer, the  *)
(* set req of the output pointers that are not null, and the values pre    *)
(* of the caller's variables they point to; it gives the value returned    *)
(* and the values of those variables afterwards.                           *)

build_join_request(m, dev_eui) ==
    LET m1 == Store(m, join_request_t, "type", EnumBytes(join_request))
    IN  Store(m1, join_request_t, "dev_eui", dev_eui)

parse_join_request(m, req, pre) ==
    IF Load(m, join_request_t, "type") # EnumBytes(join_request)
    THEN [ret |-> FALSE, out |-> pre]
    ELSE [ret |-> TRUE,
          out |-> [pre EXCEPT !.dev_eui =
                      IF "dev_eui" \in req THEN Load(m, join_request_t, "dev_eui") ELSE @]]

\* a build_join_response that would also clear the leaf_node field
ClearedJoinResponse(m, node, time) ==
    LET m1 == Store(m, join_response_t, "type", EnumBytes(join_response))
        m2 == Store(m1, join_response_t, "node", <<node>>)
        m3 == Store(m2, join_response_t, "leaf_node", <<0>>)
    IN  Store(m3, join_response_t, "time", time)

build_join_response(m, node, time) ==
    LET m1 == Store(m, join_response_t, "type", EnumBytes(join_response))
        m2 == Store(m1, join_response_t, "node", <<node>>)
    IN  Store(m2, join_response_t, "time", time)

\* the tag is compared with join_request (messages.cc:131)
parse_join_response(m, req, pre) ==
    IF Load(m, join_response_t, "type") # EnumBytes(join_request)
    THEN [ret |-> FALSE, out |-> pre]
    ELSE [ret |-> TRUE,
          out |-> [pre EXCEPT
                      !.node = IF "node" \in req THEN Load(m, join_response_t, "node")[1] ELSE @,
                      !.time = IF "time" \in req THEN Load(m, join_response_t, "time") ELSE @]]

build_time_request(m, node) ==
    LET m1 == Store(m, time_request_t, "type", EnumBytes(time_request))
    IN  Store(m1, time_request_t, "node", <<node>>)

parse_time_request(m, req, pre) ==
    IF Load(m, time_request_t, "type") # EnumBytes(time_request)
    THEN [ret |-> FALSE, out |-> pre]
    ELSE [ret |-> TRUE,
          out |-> [pre EXCEPT
                      !.node = IF "node" \in req THEN Load(m, time_request_t, "node")[1] ELSE @]]

build_time_response(m, node, time) ==
    LET m1 == Store(m, time_response_t, "type", EnumBytes(time_response))
        m2 == Store(m1, time_response_t, "node", <<node>>)
    IN  Store(m2, time_response_t, "time", time)

parse_time_response(m, req, pre) ==
    IF Load(m, time_response_t, "type") # EnumBytes(time_response)
    THEN [ret |-> FALSE, out |-> pre]
    ELSE [ret |-> TRUE,
          out |-> [pre EXCEPT
                      !.node = IF "node" \in req THEN Load(m, time_response_t, "node")[1] ELSE @,
                      !.time = IF "time" \in req THEN Load(m, time_response_t, "time") ELSE @]]

\* the number of bytes build_text_message hands to memcpy
BuildTextCopyLen(length) == IF length < TEXT_BUF_LEN THEN length ELSE TEXT_BUF_LEN

\* t->node is a uint32_t, node a uint8_t; buf is the caller's source buffer
build_text_message(m, node, length, buf) ==
    LET m1 == Store(m, text_t, "type", EnumBytes(text))
        m2 == Store(m1, text_t, "node", U32FromU8(node))
        m3 == Store(m2, text_t, "length", <<length>>)
    IN  MemWrite(m3, Offset(text_t, "buf"), buf, BuildTextCopyLen(length))

\* the number of bytes parse_text_message hands to memcpy: none unless both
\* length and buf are given (messages.cc:288)
ParseTextCopyLen(m, req) ==
    IF "length" \in req /\ "buf" \in req
    THEN IF Load(m, text_t, "length")[1] < TEXT_BUF_LEN
         THEN Load(m, text_t, "length")[1] ELSE TEXT_BUF_LEN
    ELSE 0

parse_text_message(m, req, pre) ==
    IF Load(m, text_t, "type") # EnumBytes(text)
    THEN [ret |-> FALSE, out |-> pre]
    ELSE [ret |-> TRUE,
          out |-> [pre EXCEPT
                      !.node = IF "node" \in req THEN U8FromU32(Load(m, text_t, "node")) ELSE @,
                      !.length = IF "length" \in req THEN Load(m, text_t, "length")[1] ELSE @,
                      !.buf = [i \in DOMAIN @ |->
                                 IF i <= ParseTextCopyLen(m, req)
                                 THEN ByteAt(m, Offset(text_t, "buf") + i - 1) ELSE @[i]]]]

build_data_message(m, node, message, time, battery, last_tx_duration, temp, humidity, status) ==
    LET m1 == Store(m, data_message_t, "type", EnumBytes(data_message))
        m2 == Store(m1, data_message_t, "node", <<node>>)
        m3 == Store(m2, data_message_t, "message", message)
        m4 == Store(m3, data_message_t, "time", time)
        m5 == Store(m4, data_message_t, "battery", U16Bytes(battery))
        m6 == Store(m5, data_message_t, "last_tx_duration", U16Bytes(last_tx_duration))
        m7 == Store(m6, data_message_t, "temp", I16Bytes(temp))
        m8 == Store(m7, data_message_t, "humidity", U16Bytes(humidity))
    IN  Store(m8, data_message_t, "status", <<status>>)

parse_data_message(m, req, pre) ==
    IF Load(m, data_message_t, "type") # EnumBytes(data_message)
    THEN [ret |-> FALSE, out |-> pre]
    ELSE [ret |-> TRUE,
          out |-> [pre EXCEPT
              !.node = IF "node" \in req THEN Load(m, data_message_t, "node")[1] ELSE @,
              !.message = IF "message" \in req THEN Load(m, data_message_t, "message") ELSE @,
              !.time = IF "time" \in req THEN Load(m, data_message_t, "time") ELSE @,
              !.battery = IF "battery" \in req
                          THEN U16Value(Load(m, data_message_t, "battery")) ELSE @,
              !.last_tx_duration = IF "last_tx_duration" \in req
                          THEN U16Value(Load(m, data_message_t, "last_tx_duration")) ELSE @,
              !.temp = IF "temp" \in req
                          THEN I16Value(Load(m, data_message_t, "temp")) ELSE @,
              !.humidity = IF "humidity" \in req
                          THEN U16Value(Load(m, data_message_t, "humidity")) ELSE @,
              !.status = IF "status" \in req THEN Load(m, data_message_t, "status")[1] ELSE @]]

\* the parse_ function of a kind
Parse(kind, m, req, pre) ==
    CASE kind = join_request -> parse_join_request(m, req, pre)
      [] kind = join_response -> parse_join_response(m, req, pre)
      [] kind = time_request -> parse_time_request(m, req, pre)
      [] kind = time_response -> parse_time_response(m, req, pre)
      [] kind = data_message -> parse_data_message(m, req, pre)
      [] kind = text -> parse_text_message(m, req, pre)

\* the output parameters of each parse_ function
Slots(kind) ==
    CASE kind = join_request -> {"dev_eui"}
      [] kind = join_response -> {"node", "time"}
      [] kind = time_request -> {"node"}
      [] kind = time_response -> {"node", "time"}
      [] kind = data_message -> {"node", "message", "time", "battery", "last_tx_duration",
                                 "temp", "humidity", "status"}
      [] kind = text -> {"node", "length", "buf"}

----------------------------------------------------------------------------
(* get_message_type and get_message_type_string. *)

\* memcpy(&type, message, sizeof(MessageType))
get_message_type(m) == MemRead(m, 0, SizeofMessageType)

\* the names, as the characters of the C string literals
Name_join_request == <<106, 111, 105, 110, 32, 114, 101, 113, 117, 101, 115, 116>>         \* "join request"
Name_join_response == <<106, 111, 105, 110, 32, 114, 101, 115, 112, 111, 110, 115, 101>>   \* "join response"
Name_time_request == <<116, 105, 109, 101, 32, 114, 101, 113, 117, 101, 115, 116>>         \* "time request"
Name_time_response == <<116, 105, 109, 101, 32, 114, 101, 115, 112, 111, 110, 115, 101>>   \* "time response"
Name_data_message == <<100, 97, 116, 97, 32, 109, 101, 115, 115, 97, 103, 101>>            \* "data message"
Name_text == <<116, 101, 120, 116>>                                                        \* "text"
Name_unknown == <<117, 110, 107, 110, 111, 119, 110>>                                      \* "unknown"

\* the switch of get_message_type_string, on the enum's bytes
get_message_type_string(type) ==
    CASE type = EnumBytes(join_request) -> Name_join_request
      [] type = EnumBytes(join_response) -> Name_join_response
      [] type = EnumBytes(time_request) -> Name_time_request
      [] type = EnumBytes(time_response) -> Name_time_response
      [] type = EnumBytes(data_message) -> Name_data_message
      [] type = EnumBytes(text) -> Name_text
      [] OTHER -> Name_unknown

----------------------------------------------------------------------------
(* snprintf: the conversions the format strings use.  A string is the      *)
(* sequence of its characters (their codes), without the final NUL.        *)

\* a decimal digit, a lower-case hexadecimal digit
DecChar(d) == 48 + d
HexChar(d) == IF d < 10 THEN 48 + d ELSE 87 + d

\* %u of a value below 2^31: repeated division by ten
RECURSIVE FmtU(_)
FmtU(n) == IF n < 10 THEN <<DecChar(n)>> ELSE Append(FmtU(n \div 10), DecChar(n % 10))

\* %d
FmtD(n) == IF n < 0 THEN <<45>> \o FmtU(0 - n) ELSE FmtU(n)

\* b[1..i] (least significant first) divided by ten, rem carried in from
\* the bytes above: the quotient's bytes and the remainder
RECURSIVE DivTen(_, _, _)
DivTen(b, i, rem) ==
    IF i = 0 THEN [q |-> <<>>, r |-> rem]
    ELSE LET cur == rem * 256 + b[i]
             low == DivTen(b, i - 1, cur % 10)
         IN  [q |-> Append(low.q, cur \div 10), r |-> low.r]

IsZero(b) == \A i \in DOMAIN b : b[i] = 0

\* %lu of a uint32_t given by its bytes
RECURSIVE FmtLU(_)
FmtLU(b) ==
    LET d == DivTen(b, Len(b), 0)
    IN  IF IsZero(d.q) THEN <<DecChar(d.r)>> ELSE Append(FmtLU(d.q), DecChar(d.r))

\* every hexadecimal digit of b[1..i], most significant first
RECURSIVE HexDigits(_, _)
HexDigits(b, i) ==
    IF i = 0 THEN <<>>
    ELSE <<HexChar(b[i] \div 16), HexChar(b[i] % 16)>> \o HexDigits(b, i - 1)

RECURSIVE StripZeros(_)
StripZeros(s) == IF Len(s) > 1 /\ s[1] = 48 THEN StripZeros(Tail(s)) ELSE s

\* a field width: blanks on the left
PadLeft(s, w) ==
    IF Len(s) >= w THEN s
    ELSE [i \in 1..w |-> IF i <= w - Len(s) THEN 32 ELSE s[i - (w - Len(s))]]

\* %16llx of a uint64_t given by its bytes
Fmt16llx(b) == PadLeft(StripZeros(HexDigits(b, Len(b))), 16)

\* 0x%02x of a value below 256 (the zero flag, width 2)
Fmt02x(n) == <<HexChar(n \div 16), HexChar(n % 16)>>

\* %s: the bytes up to the first NUL
CString(bytes) ==
    LET nuls == {i \in 1..Len(bytes) : bytes[i] = 0}
    IN  IF nuls = {} THEN bytes
        ELSE SubSeq(bytes, 1, (CHOOSE i \in nuls : \A j \in nuls : i <= j) - 1)

\* what is written into a destination of size bytes: at most size-1 characters
snprintf(size, s) == SubSeq(s, 1, Min(Len(s), size - 1))

\* the memory %s reads from t->buf: the buffer from buf on, then the bytes
\* that follow the structure in memory (beyond), until a NUL
TextBufMemory(m, beyond) ==
    MemRead(m, Offset(text_t, "buf"), MsgSize - Offset(text_t, "buf")) \o beyond \o <<0>>

----------------------------------------------------------------------------
(* The _to_string functions.  Each parses into local variables that it     *)
(* does not initialize (uninit: the values they hold at entry) and prints  *)
(* them into its own static decoded_string.                                *)

join_request_to_string(m, pretty, uninit) ==
    LET dev_eui == parse_join_request(m, {"dev_eui"}, [dev_eui |-> uninit.dev_eui]).out.dev_eui
        name == get_message_type_string(get_message_type(m))
    IN  IF pretty
        THEN snprintf(64, <<116, 121, 112, 101, 58, 32>> \o name                      \* "type: %s"
                 \o <<44, 32, 100, 101, 118, 105, 99, 101, 32, 69, 85, 73, 58, 32, 48, 120>>
                 \o Fmt16llx(dev_eui))                               \* ", device EUI: 0x%16llx"
        ELSE snprintf(64, name \o <<44, 32, 48, 120>> \o Fmt16llx(dev_eui))    \* "%s, 0x%16llx"

join_response_to_string(m, pretty, uninit) ==
    LET p == parse_join_response(m, {"node", "time"},
                                 [node |-> uninit.node, time |-> uninit.time]).out
    IN  IF pretty
        THEN snprintf(64, <<110, 111, 100, 101, 58, 32>> \o FmtU(p.node)              \* "node: %u"
                 \o <<44, 32, 116, 105, 109, 101, 58, 32>> \o FmtLU(p.time))    \* ", time: %lu"
        ELSE snprintf(64, FmtU(p.node) \o <<44, 32>> \o FmtLU(p.time))          \* "%u, %lu"

time_request_to_string(m, pretty, uninit) ==
    LET node == parse_time_request(m, {"node"}, [node |-> uninit.node]).out.node
        name == get_message_type_string(get_message_type(m))
    IN  IF pretty
        THEN snprintf(64, <<116, 121, 112, 101, 58, 32>> \o name                      \* "type: %s"
                 \o <<44, 32, 78, 111, 100, 101, 58, 32>> \o FmtD(node))        \* ", Node: %d"
        ELSE snprintf(64, name \o <<44, 32>> \o FmtD(node))                     \* "%s, %d"

time_response_to_string(m, pretty, uninit) ==
    LET p == parse_time_response(m, {"node", "time"},
                                 [node |-> uninit.node, time |-> uninit.time]).out
    IN  IF pretty
        THEN snprintf(64, <<110, 111, 100, 101, 58, 32>> \o FmtU(p.node)              \* "node: %u"
                 \o <<44, 32, 116, 105, 109, 101, 58, 32>> \o FmtLU(p.time))    \* ", time: %lu"
        ELSE snprintf(64, FmtU(p.node) \o <<44, 32>> \o FmtLU(p.time))          \* "%u, %lu"

\* the characters before the message in text_message_to_string's output
TextPrefix(node, pretty) ==
    IF pretty
    THEN <<110, 111, 100, 101, 58, 32>> \o FmtU(node)                          \* "node: %u"
             \o <<44, 32, 109, 101, 115, 115, 97, 103, 101, 58, 32>>            \* ", message: "
    ELSE FmtU(node) \o <<44, 32>>                                              \* "%u, "

\* the message is printed from t->buf with %s, not from the parsed copy msg
text_message_to_string(m, pretty, uninit, beyond) ==
    LET p == parse_text_message(m, {"node", "length", "buf"},
                 [node |-> uninit.node, length |-> uninit.length, buf |-> uninit.msg]).out
    IN  snprintf(TEXT_BUF_LEN + 20,
                 TextPrefix(p.node, pretty) \o CString(TextBufMemory(m, beyond)))

data_message_to_string(m, pretty, uninit) ==
    LET p == parse_data_message(m,
                 {"node", "message", "time", "battery", "last_tx_duration", "temp",
                  "humidity", "status"},
                 [node |-> uninit.node, message |-> uninit.message, time |-> uninit.time,
                  battery |-> uninit.battery, last_tx_duration |-> uninit.last_tx_duration,
                  temp |-> uninit.temp, humidity |-> uninit.humidity,
                  status |-> uninit.status]).out
    IN  IF pretty
        THEN snprintf(256,
                    <<110, 111, 100, 101, 58, 32>> \o FmtU(p.node)              \* "node: %u"
                 \o <<44, 32, 109, 101, 115, 115, 97, 103, 101, 58, 32>> \o FmtLU(p.message)
                                                                             \* ", message: %lu"
                 \o <<44, 32, 116, 105, 109, 101, 58, 32>> \o FmtLU(p.time)    \* ", time: %lu"
                 \o <<44, 32, 86, 98, 97, 116, 32>> \o FmtU(p.battery)         \* ", Vbat %u"
                 \o <<32, 118, 44, 32, 84, 120, 32, 100, 117, 114, 32>> \o FmtU(p.last_tx_duration)
                                                                             \* " v, Tx dur %u"
                 \o <<32, 109, 115, 44, 32, 84, 58, 32>> \o FmtD(p.temp)       \* " ms, T: %d"
                 \o <<32, 67, 44, 32, 82, 72, 58, 32>> \o FmtU(p.humidity)     \* " C, RH: %u"
                 \o <<32, 37, 44, 32, 115, 116, 97, 116, 117, 115, 58, 32, 48, 120>>
                 \o Fmt02x(p.status))                              \* " %%, status: 0x%02x"
        ELSE snprintf(256,
                    FmtU(p.node) \o <<44, 32>> \o FmtLU(p.message) \o <<44, 32>>
                 \o FmtLU(p.time) \o <<44, 32>> \o FmtU(p.battery) \o <<44, 32>>
                 \o FmtU(p.last_tx_duration) \o <<44, 32>> \o FmtD(p.temp) \o <<44, 32>>
                 \o FmtU(p.humidity) \o <<44, 32, 48, 120>> \o Fmt02x(p.status))
                                        \* "%u, %lu, %lu, %u, %u, %d, %u, 0x%02x"

\* the _to_string function of a kind
ToStringOf(kind, m, pretty, uninit, beyond) ==
    CASE kind = join_request -> join_request_to_string(m, pretty, uninit)
      [] kind = join_response -> join_response_to_string(m, pretty, uninit)
      [] kind = time_request -> time_request_to_string(m, pretty, uninit)
      [] kind = time_response -> time_response_to_string(m, pretty, uninit)
      [] kind = data_message -> data_message_to_string(m, pretty, uninit)
      [] kind = text -> text_message_to_string(m, pretty, uninit, beyond)

\* one static buffer for the two functions that print a node and a time
SharedResponseString(kind) == IF kind = time_response THEN join_response ELSE kind

\* the static buffer a _to_string function prints into and returns: each
\* function declares its own static decoded_string
decoded_string(kind) == kind

----------------------------------------------------------------------------
(* The values the calls are made with. *)

\* uint8_t, uint16_t, int16_t: the ends of the range and a value inside
U8Vals == {0, 5, 255}
U8Ends == {0, 255}
U16Ends == {0, 65535}
I16Ends == {-32768, 32767}

\* uint32_t: 0, 1700000000 and 4294967295
U32Vals == {<<0, 0, 0, 0>>, <<0, 241, 83, 101>>, <<255, 255, 255, 255>>}
U32Ends == {<<0, 0, 0, 0>>, <<255, 255, 255, 255>>}

\* uint64_t: 0, 0x0102030405060708 and the maximum
U64Vals == {<<0, 0, 0, 0, 0, 0, 0, 0>>, <<8, 7, 6, 5, 4, 3, 2, 1>>,
            <<255, 255, 255, 255, 255, 255, 255, 255>>}

\* the arguments of build_data_message: every combination of the ends of
\* the ranges, and (5, 42, 1700000000, 380, 120, 2150, 5500, 0x01)
DataArgs ==
    [node : U8Ends, message : U32Ends, time : U32Ends, battery : U16Ends,
     last_tx_duration : U16Ends, temp : I16Ends, humidity : U16Ends, status : U8Ends]
    \cup {[node |-> 5, message |-> <<42, 0, 0, 0>>, time |-> <<0, 241, 83, 101>>,
           battery |-> 380, last_tx_duration |-> 120, temp |-> 2150, humidity |-> 5500,
           status |-> 1]}

\* the length argument of build_text_message: around 0 and around TEXT_BUF_LEN
TextLengths == {0, 1, 3, TEXT_BUF_LEN - 1, TEXT_BUF_LEN, TEXT_BUF_LEN + 1, 255}

\* the caller's source buffers, 255 bytes each: the letters A..Z over and
\* over, and the same with a NUL as the third byte
SrcLetters == [i \in 1..255 |-> 65 + ((i - 1) % 26)]
SrcBufs == {SrcLetters, [SrcLetters EXCEPT ![3] = 0]}

\* what memory holds before the program writes it: every byte g
GarbageFills == {0, 165}

\* the local variables of a _to_string function at entry
Uninit(g) ==
    [dev_eui |-> <<g, g, g, g, g, g, g, g>>, node |-> g, length |-> g,
     time |-> <<g, g, g, g>>, message |-> <<g, g, g, g>>,
     battery |-> U16Value(<<g, g>>), last_tx_duration |-> U16Value(<<g, g>>),
     temp |-> I16Value(<<g, g>>), humidity |-> U16Value(<<g, g>>), status |-> g,
     msg |-> [i \in 1..(TEXT_BUF_LEN + 1) |-> g]]

\* the caller's variables before a parse_ call
Pre(kind) ==
    CASE kind = join_request -> [dev_eui |-> <<77, 77, 77, 77, 77, 77, 77, 77>>]
      [] kind \in {join_response, time_response} -> [node |-> 77, time |-> <<77, 77, 77, 77>>]
      [] kind = time_request -> [node |-> 77]
      [] kind = text -> [node |-> 77, length |-> 77, buf |-> [i \in 1..(TEXT_BUF_LEN + 1) |-> 77]]
      [] kind = data_message ->
            [node |-> 77, message |-> <<77, 77, 77, 77>>, time |-> <<77, 77, 77, 77>>,
             battery |-> 7777, last_tx_duration |-> 7777, temp |-> -7777, humidity |-> 7777,
             status |-> 77]

\* the bytes that follow the structure in memory, up to the first NUL
Beyonds == {<<>>, <<90>>}

\* the values get_message_type_string is called with: 0..13 and two others
TypeInputs == {EnumBytes(v) : v \in 0..13} \cup {<<165, 165, 165, 165>>, <<255, 255, 255, 255>>}

\* the number of calls in a run of SpecStrings
MaxCalls == 3

----------------------------------------------------------------------------
(* The state machine: a buffer, and the calls made on it. *)

NoReturn == [valid |-> FALSE, str |-> <<>>]

Init ==
    /\ \E g \in GarbageFills : msg = [i \in 1..MsgSize |-> g]
    /\ built = [kind |-> 0]
    /\ op = [name |-> "init"]
    /\ res = [ret |-> FALSE]
    /\ strs = [k \in Kinds |-> <<>>]
    /\ returned = [k \in Kinds |-> NoReturn]
    /\ calls = 0

\* a build_ call that gives the buffer m
Built(kind, args, m) ==
    /\ msg' = m
    /\ built' = [kind |-> kind, args |-> args, before |-> msg]
    /\ op' = [name |-> "build", kind |-> kind]
    /\ res' = [ret |-> TRUE]
    /\ calls' = calls + 1
    /\ UNCHANGED <<strs, returned>>

BuildJoinRequest(vals) ==
    \E dev_eui \in vals :
        Built(join_request, [dev_eui |-> dev_eui], build_join_request(msg, dev_eui))

BuildJoinResponse(nodes, times) ==
    \E node \in nodes, time \in times :
        Built(join_response, [node |-> node, time |-> time],
              build_join_response(msg, node, time))

BuildTimeRequest(nodes) ==
    \E node \in nodes :
        Built(time_request, [node |-> node], build_time_request(msg, node))

BuildTimeResponse(nodes, times) ==
    \E node \in nodes, time \in times :
        Built(time_response, [node |-> node, time |-> time],
              build_time_response(msg, node, time))

BuildTextMessage(nodes, lengths, bufs) ==
    \E node \in nodes, length \in lengths, buf \in bufs :
        Built(text, [node |-> node, length |-> length, buf |-> buf],
              build_text_message(msg, node, length, buf))

BuildDataMessage(args) ==
    \E a \in args :
        Built(data_message, a,
              build_data_message(msg, a.node, a.message, a.time, a.battery,
                                 a.last_tx_duration, a.temp, a.humidity, a.status))

\* parse_<kind>(msg, ...) with the output pointers req, the others null
ParseCall(kind) ==
    \E req \in SUBSET Slots(kind) :
        LET r == Parse(kind, msg, req, Pre(kind))
        IN  /\ op' = [name |-> "parse", kind |-> kind, req |-> req]
            /\ res' = [ret |-> r.ret, out |-> r.out,
                       ncopy |-> IF kind = text /\ r.ret THEN ParseTextCopyLen(msg, req) ELSE 0]
            /\ calls' = calls + 1
            /\ UNCHANGED <<msg, built, strs, returned>>

ParseJoinRequest == ParseCall(join_request)
ParseJoinResponse == ParseCall(join_response)
ParseTimeRequest == ParseCall(time_request)
ParseTimeResponse == ParseCall(time_response)
ParseTextMessage == ParseCall(text)
ParseDataMessage == ParseCall(data_message)

GetMessageType ==
    /\ op' = [name |-> "get_message_type"]
    /\ res' = [type |-> get_message_type(msg)]
    /\ calls' = calls + 1
    /\ UNCHANGED <<msg, built, strs, returned>>

GetMessageTypeString ==
    \E type \in TypeInputs :
        /\ op' = [name |-> "get_message_type_string", type |-> type]
        /\ res' = [name |-> get_message_type_string(type)]
        /\ calls' = calls + 1
        /\ UNCHANGED <<msg, built, strs, returned>>

\* <kind>_to_string(msg, pretty): prints into the function's static buffer
\* and returns it
ToStringCall(kind, fills, beyonds) ==
    \E pretty \in BOOLEAN, g \in fills, beyond \in beyonds :
        LET s == ToStringOf(kind, msg, pretty, Uninit(g), beyond)
        IN  /\ strs' = [strs EXCEPT ![decoded_string(kind)] = s]
            /\ returned' = [returned EXCEPT ![kind] = [valid |-> TRUE, str |-> s]]
            /\ op' = [name |-> "to_string", kind |-> kind, pretty |-> pretty]
            /\ res' = [str |-> s]
            /\ calls' = calls + 1
            /\ UNCHANGED <<msg, built>>

JoinRequestToString(fills) == ToStringCall(join_request, fills, {<<>>})
JoinResponseToString(fills) == ToStringCall(join_response, fills, {<<>>})
TimeRequestToString(fills) == ToStringCall(time_request, fills, {<<>>})
TimeResponseToString(fills) == ToStringCall(time_response, fills, {<<>>})
TextMessageToString(fills, beyonds) == ToStringCall(text, fills, beyonds)
DataMessageToString(fills) == ToStringCall(data_message, fills, {<<>>})

\* no call was made yet; the last call was a build_
Fresh == op.name = "init"
JustBuilt == op.name = "build"

\* Spec: one build_ call on a buffer of garbage, then one call on the
\* buffer it leaves; get_message_type also on the buffer of garbage.
Next ==
    \/ Fresh /\ BuildTextMessage(U8Vals, TextLengths, SrcBufs)
    \/ Fresh /\ BuildJoinRequest(U64Vals)
    \/ Fresh /\ BuildJoinResponse(U8Vals, U32Vals)
    \/ Fresh /\ BuildTimeRequest(U8Vals)
    \/ Fresh /\ BuildTimeResponse(U8Vals, U32Vals)
    \/ Fresh /\ BuildDataMessage(DataArgs)
    \/ JustBuilt /\ ParseTextMessage
    \/ JustBuilt /\ ParseJoinRequest
    \/ JustBuilt /\ ParseJoinResponse
    \/ JustBuilt /\ ParseTimeRequest
    \/ JustBuilt /\ ParseTimeResponse
    \/ JustBuilt /\ ParseDataMessage
    \/ JustBuilt /\ JoinRequestToString(GarbageFills)
    \/ JustBuilt /\ JoinResponseToString(GarbageFills)
    \/ JustBuilt /\ TimeRequestToString(GarbageFills)
    \/ JustBuilt /\ TimeResponseToString(GarbageFills)
    \/ JustBuilt /\ TextMessageToString(GarbageFills, Beyonds)
    \/ JustBuilt /\ DataMessageToString(GarbageFills)
    \/ (Fresh \/ JustBuilt) /\ GetMessageType
    \/ Fresh /\ GetMessageTypeString

Spec == Init /\ [][Next]_vars

\* SpecStrings: up to MaxCalls calls, each a build_ or a _to_string, in any
\* order, on a buffer that starts zeroed and with locals that start zeroed.
NextStrings ==
    \/ calls < MaxCalls /\ BuildJoinRequest({<<8, 7, 6, 5, 4, 3, 2, 1>>})
    \/ calls < MaxCalls /\ BuildJoinResponse({5}, {<<0, 241, 83, 101>>})
    \/ calls < MaxCalls /\ BuildTimeRequest({5})
    \/ calls < MaxCalls /\ BuildTimeResponse({255}, {<<255, 255, 255, 255>>})
    \/ calls < MaxCalls /\ BuildTextMessage({5}, {3}, {SrcLetters})
    \/ calls < MaxCalls /\ BuildDataMessage({[node |-> 5, message |-> <<42, 0, 0, 0>>,
                               time |-> <<0, 241, 83, 101>>, battery |-> 380,
                               last_tx_duration |-> 120, temp |-> 2150, humidity |-> 5500,
                               status |-> 1]})
    \/ calls < MaxCalls /\ JoinRequestToString({0})
    \/ calls < MaxCalls /\ JoinResponseToString({0})
    \/ calls < MaxCalls /\ TimeRequestToString({0})
    \/ calls < MaxCalls /\ TimeResponseToString({0})
    \/ calls < MaxCalls /\ TextMessageToString({0}, {<<>>})
    \/ calls < MaxCalls /\ DataMessageToString({0})

InitStrings == Init /\ msg = [i \in 1..MsgSize |-> 0]

SpecStrings == InitStrings /\ [][NextStrings]_vars

----------------------------------------------------------------------------
(* Reading a rendered string back: the decimal numbers in it and the       *)
(* hexadecimal number after "0x", as values, by multiplication (the        *)
(* _to_string functions produce them by division).                         *)

IsDigit(c) == c >= 48 /\ c <= 57

\* an integer of 8 or 16 bits, or a byte sequence, as eight bytes
Wide(b) == [i \in 1..8 |-> IF i <= Len(b) THEN b[i] ELSE 0]
WideInt(v) == Wide(U16Bytes(v))

\* b * 10 + carry, from byte i on
RECURSIVE TimesTenPlus(_, _, _)
TimesTenPlus(b, i, carry) ==
    IF i > Len(b) THEN <<>>
    ELSE <<(b[i] * 10 + carry) % 256>> \o TimesTenPlus(b, i + 1, (b[i] * 10 + carry) \div 256)

\* the value of the decimal digits s[from..to]
RECURSIVE DecimalValue(_, _, _)
DecimalValue(s, from, to) ==
    IF to < from THEN Wide(<<>>)
    ELSE TimesTenPlus(DecimalValue(s, from, to - 1), 1, s[to] - 48)

\* where "0x" starts in s (0: nowhere)
HexMark(s) ==
    LET at == {i \in 1..(Len(s) - 1) : s[i] = 48 /\ s[i + 1] = 120}
    IN  IF at = {} THEN 0 ELSE CHOOSE i \in at : \A j \in at : i <= j

\* the part of s in which the decimal numbers are
DecimalPart(s) == IF HexMark(s) = 0 THEN s ELSE SubSeq(s, 1, HexMark(s) - 1)

\* the places where a run of digits starts, and where the run from i ends
RunStarts(s) == {i \in 1..Len(s) : IsDigit(s[i]) /\ (i = 1 \/ ~IsDigit(s[i - 1]))}
RunEnd(s, i) ==
    CHOOSE j \in i..Len(s) :
        /\ \A k \in i..j : IsDigit(s[k])
        /\ (j = Len(s) \/ ~IsDigit(s[j + 1]))

\* the k-th run of digits of s: its sign and its magnitude
NthRun(s, k) ==
    LET i == CHOOSE i \in RunStarts(s) : Cardinality({j \in RunStarts(s) : j < i}) = k - 1
    IN  [neg |-> i > 1 /\ s[i - 1] = 45, mag |-> DecimalValue(s, i, RunEnd(s, i))]

\* the decimal numbers of s, in order
DecimalNumbers(s) ==
    [k \in 1..Cardinality(RunStarts(DecimalPart(s))) |-> NthRun(DecimalPart(s), k)]

HexNibble(c) == IF IsDigit(c) THEN c - 48 ELSE c - 87

\* the value of the hexadecimal digits h, most significant first
HexValue(h) ==
    [i \in 1..8 |->
        (IF Len(h) - 2 * i + 2 >= 1 THEN HexNibble(h[Len(h) - 2 * i + 2]) ELSE 0)
        + 16 * (IF Len(h) - 2 * i + 1 >= 1 THEN HexNibble(h[Len(h) - 2 * i + 1]) ELSE 0)]

\* the hexadecimal number of s: the digits after "0x" and the blanks of the
\* field width
HexNumber(s) ==
    LET after == SubSeq(s, HexMark(s) + 2, Len(s))
    IN  HexValue(SelectSeq(after, LAMBDA c : c # 32))

\* an unsigned and a signed argument as a number read back
Unsigned(b) == [neg |-> FALSE, mag |-> Wide(b)]
UnsignedInt(v) == [neg |-> FALSE, mag |-> WideInt(v)]
SignedInt(v) == [neg |-> v < 0, mag |-> WideInt(IF v < 0 THEN 0 - v ELSE v)]

\* the decimal numbers a rendering of the arguments a of build_<kind> shows
ArgDecimals(kind, a) ==
    CASE kind = join_request -> <<>>
      [] kind \in {join_response, time_response} -> <<UnsignedInt(a.node), Unsigned(a.time)>>
      [] kind \in {time_request, text} -> <<UnsignedInt(a.node)>>
      [] kind = data_message ->
            <<UnsignedInt(a.node), Unsigned(a.message), Unsigned(a.time),
              UnsignedInt(a.battery), UnsignedInt(a.last_tx_duration), SignedInt(a.temp),
              UnsignedInt(a.humidity)>>

\* the message given to build_text_message, as a string: the bytes that
\* count, up to a NUL
ArgMessage(a) == CString(SubSeq(a.buf, 1, Min(a.length, TEXT_BUF_LEN)))

\* the message part of the string text_message_to_string printed for node
MessagePart(s, node, pretty) == SubSeq(s, Len(TextPrefix(node, pretty)) + 1, Len(s))

----------------------------------------------------------------------------
(* The properties. *)

\* the last call was parse_<kind> on a buffer that build_<that kind> made
ParsedOwnKind == op.name = "parse" /\ op.kind = built.kind

\* the length field of the text_t in the buffer
StoredLength == Load(msg, text_t, "length")[1]

\* C1: round trip.  For every kind, parse_X with every output slot given,
\* on the structure build_X made, returns true and every slot holds the
\* value given to build_X (of the text, the bytes that fit the buffer).
C1_RoundTrip ==
    (ParsedOwnKind /\ op.req = Slots(op.kind)) =>
        /\ res.ret = TRUE
        /\ \A slot \in Slots(op.kind) \ {"buf"} : res.out[slot] = built.args[slot]
        /\ op.kind = text =>
              \A i \in 1..Min(built.args.length, TEXT_BUF_LEN) :
                  res.out.buf[i] = built.args.buf[i]

\* C2: tag discrimination.  parse_X on a buffer built by build_Y, X # Y,
\* returns false and leaves every output slot as it was before the call.
C2_TagDiscrimination ==
    (op.name = "parse" /\ op.kind # built.kind) =>
        /\ res.ret = FALSE
        /\ res.out = Pre(op.kind)

\* C3: null-slot safety.  parse_X of a buffer of kind X, with any subset of
\* the output slots null, returns true, leaves the variables not passed
\* alone, and gives every slot passed the value it gets when all are passed.
C3_NullSlotSafety ==
    ParsedOwnKind =>
        /\ res.ret = TRUE
        /\ \A slot \in Slots(op.kind) \ op.req : res.out[slot] = Pre(op.kind)[slot]
        /\ \A slot \in op.req :
              res.out[slot] = Parse(op.kind, msg, Slots(op.kind), Pre(op.kind)).out[slot]

\* C4: clamping.  build_text_message copies exactly min(length,
\* TEXT_BUF_LEN) bytes of the source into buf and writes no other byte than
\* those and the type, node and length fields; parse_text_message copies
\* exactly min(stored length, TEXT_BUF_LEN) bytes of buf into the caller's
\* buffer; with length 0 neither copies a byte.
C4_TextClamping ==
    /\ (op.name = "build" /\ op.kind = text) =>
          LET n == Min(built.args.length, TEXT_BUF_LEN)
              at == Offset(text_t, "buf")
          IN  /\ \A i \in 1..n : ByteAt(msg, at + i - 1) = built.args.buf[i]
              /\ \A off \in (at + n)..(MsgSize - 1) :
                    ByteAt(msg, off) = ByteAt(built.before, off)
              /\ built.args.length = 0 =>
                    \A off \in at..(MsgSize - 1) :
                        ByteAt(msg, off) = ByteAt(built.before, off)
    /\ (ParsedOwnKind /\ op.kind = text /\ "buf" \in op.req) =>
          LET n == Min(StoredLength, TEXT_BUF_LEN)
          IN  /\ res.ncopy = n
              /\ \A i \in DOMAIN res.out.buf :
                    res.out.buf[i] = IF i <= n THEN ByteAt(msg, Offset(text_t, "buf") + i - 1)
                                     ELSE Pre(text).buf[i]

\* C5: the length invariant.  After build_text_message with any length in
\* 0..255 the length field of the structure is at most TEXT_BUF_LEN, and so
\* is the length parse_text_message reports.
C5_TextLengthInvariant ==
    built.kind = text =>
        /\ StoredLength <= TEXT_BUF_LEN
        /\ (op.name = "parse" /\ op.kind = text /\ "length" \in op.req) =>
              res.out.length <= TEXT_BUF_LEN

\* C6: dispatch.  get_message_type returns the leading tag field whatever
\* the buffer holds; on a buffer made by build_X it is X's tag, and the
\* parse_ function of the kind it reports accepts that buffer.
C6_Dispatch ==
    op.name = "get_message_type" =>
        /\ res.type = <<msg[1], msg[2], msg[3], msg[4]>>
        /\ built.kind \in Kinds =>
              /\ res.type = EnumBytes(built.kind)
              /\ \A k \in Kinds :
                    res.type = EnumBytes(k) =>
                        Parse(k, msg, Slots(k), Pre(k)).ret = TRUE

\* C7: type naming.  get_message_type_string gives every value of the
\* enumeration (data_packet included) a name of its own, and "unknown" to
\* every other value.
C7_TypeNaming ==
    op.name = "get_message_type_string" =>
        IF \E v \in MessageType : op.type = EnumBytes(v)
        THEN /\ res.name # Name_unknown
             /\ \A w \in MessageType :
                   op.type # EnumBytes(w) => get_message_type_string(EnumBytes(w)) # res.name
        ELSE res.name = Name_unknown

\* C8: string storage stability.  The string X_to_string returned keeps
\* its contents through every call that is not X_to_string: whatever was
\* called since, the storage it returned still holds what it returned.
C8_StringStability ==
    \A k \in Kinds : returned[k].valid => strs[decoded_string(k)] = returned[k].str

\* C8, its case: a _to_string call of one kind has just printed a string,
\* after another kind's _to_string returned a different string.
C8_Witness ==
    /\ op.name = "to_string"
    /\ \E k \in Kinds \ {op.kind} : returned[k].valid /\ returned[k].str # res.str

\* C9: text rendering.  For a text_t with no NUL among the first length
\* bytes of buf, the message text_message_to_string prints is at most
\* min(length, TEXT_BUF_LEN) bytes of buf, and printing it reads no byte
\* past the end of buf.
C9_TextRendering ==
    (/\ op.name = "to_string" /\ op.kind = text /\ built.kind = text
     /\ \A i \in 1..Min(StoredLength, TEXT_BUF_LEN) :
           ByteAt(msg, Offset(text_t, "buf") + i - 1) # 0) =>
        LET message == MessagePart(res.str, built.args.node, op.pretty)
        IN  /\ Len(message) <= Min(StoredLength, TEXT_BUF_LEN)
            /\ message = MemRead(msg, Offset(text_t, "buf"), Len(message))
            /\ \E i \in 1..TEXT_BUF_LEN : ByteAt(msg, Offset(text_t, "buf") + i - 1) = 0

\* C10: rendering reflects the message.  X_to_string of the structure
\* build_X made, with either flag, shows the values given to build_X in the
\* order of the fields (decimal, the device EUI and the status in
\* hexadecimal, the text's message), and what it prints depends on nothing
\* but the structure and the flag.
C10_Rendering ==
    (op.name = "to_string" /\ op.kind = built.kind) =>
        /\ DecimalNumbers(IF op.kind = text
                          THEN SubSeq(res.str, 1, Len(TextPrefix(built.args.node, op.pretty)))
                          ELSE res.str)
              = ArgDecimals(op.kind, built.args)
        /\ op.kind = join_request => HexNumber(res.str) = Wide(built.args.dev_eui)
        /\ op.kind = data_message => HexNumber(res.str) = WideInt(built.args.status)
        /\ op.kind = text =>
              MessagePart(res.str, built.args.node, op.pretty) = ArgMessage(built.args)
        /\ \A g \in GarbageFills, beyond \in Beyonds :
              ToStringOf(op.kind, msg, op.pretty, Uninit(g), beyond) = res.str

\* the size of the fields text_t declares before buf
TextHeaderSize ==
    FieldSize(text_t, "type") + FieldSize(text_t, "node") + FieldSize(text_t, "length")

\* C11: text message size.  TEXT_BUF_LEN plus the sizes of the type, node
\* and length fields of text_t is RH_RF95_MAX_MESSAGE_LEN, so a text_t is
\* no larger than RH_RF95_MAX_MESSAGE_LEN and build_text_message changes
\* no byte beyond the first RH_RF95_MAX_MESSAGE_LEN of the buffer.
C11_TextMessageSize ==
    built.kind = text =>
        /\ TEXT_BUF_LEN + TextHeaderSize = RH_RF95_MAX_MESSAGE_LEN
        /\ SizeOf(text_t) <= RH_RF95_MAX_MESSAGE_LEN
        /\ \A i \in DOMAIN msg :
              msg[i] # built.before[i] => i <= RH_RF95_MAX_MESSAGE_LEN

\* the indexes of the bytes of a field in a buffer
FieldSpan(fields, name) ==
    (Offset(fields, name) + 1)..(Offset(fields, name) + FieldSize(fields, name))

\* the indexes of the bytes that belong to the tag and to the parameters of
\* build_<kind>(args): the fields named as the parameters are, and of the
\* text the first min(length, TEXT_BUF_LEN) bytes of buf
ParamSpan(kind, args) ==
    UNION {FieldSpan(StructOf(kind), n) : n \in ((DOMAIN args) \cup {"type"}) \ {"buf"}}
    \cup (IF kind = text
          THEN (Offset(text_t, "buf") + 1)..(Offset(text_t, "buf") + Min(args.length, TEXT_BUF_LEN))
          ELSE {})

\* C12: the frame of build.  After build_X with any arguments (node 0
\* included) the structure carries X's tag and the node given, and every
\* byte outside the tag and the fields given as parameters is what it was
\* before the call; the leaf_node field of a join_response_t is what it was
\* before build_join_response.
C12_BuildFrame ==
    op.name = "build" =>
        /\ Load(msg, StructOf(built.kind), "type") = EnumBytes(built.kind)
        /\ "node" \in DOMAIN built.args =>
              Load(msg, StructOf(built.kind), "node") =
                  IF built.kind = text THEN U32FromU8(built.args.node)
                  ELSE <<built.args.node>>
        /\ \A i \in (DOMAIN msg) \ ParamSpan(built.kind, built.args) :
              msg[i] = built.before[i]
        /\ built.kind = join_response =>
              Load(msg, join_response_t, "leaf_node")
                  = Load(built.before, join_response_t, "leaf_node")

\* build_join_response with node 0 on a buffer of 0xA5 bytes has left
\* leaf_node 0xA5
C12_Witness ==
    /\ op.name = "build" /\ built.kind = join_response
    /\ built.args.node = 0
    /\ Load(msg, join_response_t, "leaf_node") = <<165>>

====
